---- MODULE Spec2Model ----
(***************************************************************************)
(* A model of tooling/ingest.py: the ingestion CLI of the research data    *)
(* pipeline.  Paths, file names, file contents and manifest cells are TLA+ *)
(* strings, and the string functions of the program (slugify, splitext,    *)
(* the csv writer, the csv reader, the regex search of the router) are     *)
(* computed character by character, as the code computes them.             *)
(***************************************************************************)
EXTENDS Integers, Sequences, FiniteSets, TLC

(***************************************************************************)
(* Strings                                                                 *)
(***************************************************************************)

\* The i-th character of s, as a string of length 1 (Python s[i-1]).
Ch(s, i) == SubSeq(s, i, i)

\* Python s.startswith(p).
StartsWith(s, p) == Len(p) <= Len(s) /\ SubSeq(s, 1, Len(p)) = p

\* Python s.endswith(p).
EndsWith(s, p) == Len(p) <= Len(s) /\ SubSeq(s, Len(s) - Len(p) + 1, Len(s)) = p

\* The positions of s that hold one of the characters of the set cs.
Positions(s, cs) == {i \in 1..Len(s) : Ch(s, i) \in cs}

\* The set of the characters of the string s.
CharSet(s) == {Ch(s, i) : i \in 1..Len(s)}

Max(S) == CHOOSE x \in S : \A y \in S : y <= x
Min(S) == CHOOSE x \in S : \A y \in S : x <= y

UpperChars == "ABCDEFGHIJKLMNOPQRSTUVWXYZ"
LowerChars == "abcdefghijklmnopqrstuvwxyz"
DigitChars == "0123456789"

UpperSet == CharSet(UpperChars)
LowerOf == [c \in UpperSet |->
               Ch(LowerChars, CHOOSE i \in 1..Len(UpperChars) : Ch(UpperChars, i) = c)]

\* Python str.lower() on one character (ASCII letters).
LowerCh(c) == IF c \in UpperSet THEN LowerOf[c] ELSE c

\* A character-wise map of a string: the concatenation of f(c) over s.
RECURSIVE MapStr(_, _, _, _)
MapStr(f(_), s, lo, hi) ==
    IF lo > hi THEN ""
    ELSE IF lo = hi THEN f(Ch(s, lo))
    ELSE LET mid == (lo + hi) \div 2
         IN MapStr(f, s, lo, mid) \o MapStr(f, s, mid + 1, hi)

\* Python str.lower().
Lower(s) == MapStr(LowerCh, s, 1, Len(s))

\* Python str(n) for a natural number n.
RECURSIVE ToStr(_)
ToStr(n) ==
    IF n < 10 THEN Ch(DigitChars, n + 1)
    ELSE ToStr(n \div 10) \o Ch(DigitChars, (n % 10) + 1)

(***************************************************************************)
(* slugify (ingest.py 111-141)                                             *)
(***************************************************************************)

\* unicodedata.normalize('NFKD', c).encode('ascii', 'ignore') on one
\* character: an ASCII character is kept, a letter with a diacritic keeps
\* its base letter (the combining mark is not ASCII and is dropped); the
\* non-ASCII characters of the model are the two named here.
AsciiChars ==
    CharSet(UpperChars \o LowerChars \o DigitChars
            \o " \t\r\n!\"#$%&'()*+,-./:;<=>?@[]^_{|}~\\")

AsciiFoldCh(c) ==
    IF c \in AsciiChars THEN c
    ELSE IF c = "é" THEN "e"
    ELSE IF c = "Ü" THEN "U"
    ELSE ""

Whitespace == {" ", "\t", "\r", "\n"}

\* The characters of [A-Za-z0-9._-].
SafeChars == CharSet(UpperChars \o LowerChars \o DigitChars \o "._-")

\* re.sub(r'\s+', '-', s): every maximal run of whitespace becomes one
\* hyphen.  Character i yields a hyphen when it starts a run, nothing when
\* it continues one, and itself otherwise.
RECURSIVE SubWhitespace(_, _, _)
SubWhitespace(s, lo, hi) ==
    IF lo > hi THEN ""
    ELSE IF lo = hi THEN
        IF Ch(s, lo) \in Whitespace
        THEN (IF lo > 1 /\ Ch(s, lo - 1) \in Whitespace THEN "" ELSE "-")
        ELSE Ch(s, lo)
    ELSE LET mid == (lo + hi) \div 2
         IN SubWhitespace(s, lo, mid) \o SubWhitespace(s, mid + 1, hi)

\* re.sub(r'[^A-Za-z0-9._-]', '', s).
KeepSafeCh(c) == IF c \in SafeChars THEN c ELSE ""

\* re.sub(r'-+', '-', s): every maximal run of hyphens becomes one hyphen.
RECURSIVE CollapseHyphens(_, _, _)
CollapseHyphens(s, lo, hi) ==
    IF lo > hi THEN ""
    ELSE IF lo = hi THEN
        IF Ch(s, lo) = "-" /\ lo > 1 /\ Ch(s, lo - 1) = "-" THEN "" ELSE Ch(s, lo)
    ELSE LET mid == (lo + hi) \div 2
         IN CollapseHyphens(s, lo, mid) \o CollapseHyphens(s, mid + 1, hi)

\* Python s.rstrip('-').
RStripHyphens(s) ==
    LET keep == {i \in 1..Len(s) : Ch(s, i) # "-"}
    IN IF keep = {} THEN "" ELSE SubSeq(s, 1, Max(keep))

\* Python s.strip('-').
StripHyphens(s) ==
    LET keep == {i \in 1..Len(s) : Ch(s, i) # "-"}
    IN IF keep = {} THEN "" ELSE SubSeq(s, Min(keep), Max(keep))

\* A truncation that leaves a hyphen at the cut in place.
TruncateOnly(s, max_len) ==
    IF Len(s) > max_len THEN SubSeq(s, 1, max_len) ELSE s

\* The truncation step of slugify: text[:max_len].rstrip('-') when the
\* text is longer than max_len.
Truncate(s, max_len) ==
    IF Len(s) > max_len THEN RStripHyphens(SubSeq(s, 1, max_len)) ELSE s

slugify(text, max_len) ==
    LET t1 == MapStr(AsciiFoldCh, text, 1, Len(text))
        t2 == SubWhitespace(t1, 1, Len(t1))
        t3 == MapStr(KeepSafeCh, t2, 1, Len(t2))
        t4 == CollapseHyphens(t3, 1, Len(t3))
        t5 == StripHyphens(t4)
    IN Truncate(t5, max_len)

(***************************************************************************)
(* Paths (os.path)                                                         *)
(***************************************************************************)

\* Python's None, and the float nan pandas gives for an empty cell.  Both
\* are kept apart from every string the program handles.
NoneVal == "<None>"
NaN == "nan"

\* Python truthiness of a value that is None or a string.
Truthy(v) == v # NoneVal /\ v # ""

\* s.rfind(c) + 1: the last position of c in s, 0 when there is none.
RFind(s, c) == Max(Positions(s, {c}) \cup {0})

\* os.path.join(a, b) for a relative b.
join(a, b) == a \o "/" \o b

\* os.path.basename and os.path.dirname.
basename(p) == SubSeq(p, RFind(p, "/") + 1, Len(p))
dirname(p) == SubSeq(p, 1, RFind(p, "/") - 1)

\* os.path.splitext: the extension starts at the last dot of the last
\* component, unless only dots come before it in that component.
splitext(p) ==
    LET sep == RFind(p, "/")
        dot == RFind(p, ".")
    IN IF dot > sep /\ (\E k \in (sep + 1)..(dot - 1) : Ch(p, k) # ".")
       THEN <<SubSeq(p, 1, dot - 1), SubSeq(p, dot, Len(p))>>
       ELSE <<p, "">>

\* The directories os.makedirs(d, exist_ok=True) makes sure exist: d and
\* every ancestor of it.
Ancestors(d) ==
    {SubSeq(d, 1, i - 1) : i \in {j \in Positions(d, {"/"}) : j > 1}} \cup {d}

\* dict.get(key, default) on a dict modelled as a function.
DictGet(d, key, default) == IF key \in DOMAIN d THEN d[key] ELSE default

(***************************************************************************)
(* generate_timestamped_filename and handle_collision (ingest.py 144-197)  *)
(***************************************************************************)

\* datetime.now().strftime('%Y-%m-%dT%H%M%S'), the default format, for the
\* clock reading t: t seconds after midnight of one fixed day (t < 60).
strftime(t) == "2024-01-01T0000" \o (IF t < 10 THEN "0" ELSE "") \o ToStr(t)

\* datetime.now().isoformat() for the same clock reading.
isoformat(t) == "2024-01-01T00:00:" \o (IF t < 10 THEN "0" ELSE "") \o ToStr(t)

\* The default of naming.slug_maxlen.
DefaultSlugMaxLen == 60

generate_timestamped_filename(original_name, config, t) ==
    LET naming == DictGet(config, "naming", <<>>)
        slug_maxlen == DictGet(naming, "slug_maxlen", DefaultSlugMaxLen)
        lower_ext == DictGet(naming, "lower_ext", TRUE)
        base == splitext(original_name)[1]
        ext0 == splitext(original_name)[2]
        ext == IF lower_ext /\ ext0 # "" THEN Lower(ext0) ELSE ext0
        timestamp == strftime(t)
        slug0 == slugify(base, slug_maxlen)
        slug == IF slug0 = "" THEN "file" ELSE slug0
    IN slug \o "_" \o timestamp \o ext

\* The letters chr(ord('a')) .. chr(ord('z')) the first loop runs through.
NumLetters == 26

\* A collision handler without the counter loop: with every letter taken
\* it answers with the last letter.
handle_collision_letters(exists, target_path) ==
    IF target_path \notin exists THEN target_path
    ELSE LET base == splitext(target_path)[1]
             ext == splitext(target_path)[2]
             lettered(i) == base \o "-" \o Ch(LowerChars, i) \o ext
             freeLetters == {i \in 1..NumLetters : lettered(i) \notin exists}
         IN lettered(Min(freeLetters \cup {NumLetters}))

\* exists is the set of paths for which os.path.exists holds.  The letter
\* loop returns the first free base-<letter>ext; once suffix passes 'z' the
\* counter loop returns the first free base-<counter>ext, counter from 1.
handle_collision(exists, target_path) ==
    IF target_path \notin exists THEN target_path
    ELSE LET base == splitext(target_path)[1]
             ext == splitext(target_path)[2]
             lettered(i) == base \o "-" \o Ch(LowerChars, i) \o ext
             numbered(c) == base \o "-" \o ToStr(c) \o ext
             freeLetters == {i \in 1..NumLetters : lettered(i) \notin exists}
             freeCounters ==
                 {c \in 1..(Cardinality(exists) + 1) : numbered(c) \notin exists}
         IN IF freeLetters # {} THEN lettered(Min(freeLetters))
            ELSE numbered(Min(freeCounters))

(***************************************************************************)
(* Files and the csv module                                                *)
(*                                                                         *)
(* The content of a file is the sequence of its lines, each line the       *)
(* sequence of its comma-separated cells as they stand in the file (a      *)
(* quoted cell with its quotes).  FileBytes gives the bytes back.          *)
(***************************************************************************)

RECURSIVE JoinCells(_, _, _)
JoinCells(cells, lo, hi) ==
    IF lo > hi THEN ""
    ELSE IF lo = hi THEN cells[lo]
    ELSE LET mid == (lo + hi) \div 2
         IN JoinCells(cells, lo, mid) \o "," \o JoinCells(cells, mid + 1, hi)

RECURSIVE JoinLines(_, _, _)
JoinLines(content, lo, hi) ==
    IF lo > hi THEN ""
    ELSE IF lo = hi THEN JoinCells(content[lo], 1, Len(content[lo])) \o "\r\n"
    ELSE LET mid == (lo + hi) \div 2
         IN JoinLines(content, lo, mid) \o JoinLines(content, mid + 1, hi)

FileBytes(content) == JoinLines(content, 1, Len(content))

\* os.path.getsize.
getsize(content) == Len(FileBytes(content))

\* compute_sha256 (ingest.py 100-108).  SHA-256 is taken to be free of
\* collisions: the digest of a content is its bytes behind a marker, so two
\* digests are equal exactly when the bytes are.
compute_sha256(content) == "#" \o FileBytes(content)

\* csv.writer, excel dialect, QUOTE_MINIMAL: a field holding the delimiter,
\* the quote character or a line break is written in quotes, its own quotes
\* doubled.
DoubleQuoteCh(c) == IF c = "\"" THEN "\"\"" ELSE c

QuoteField(f) ==
    IF \E i \in 1..Len(f) : Ch(f, i) \in {",", "\"", "\r", "\n"}
    THEN "\"" \o MapStr(DoubleQuoteCh, f, 1, Len(f)) \o "\""
    ELSE f

\* writer.writerow(fields): the line it adds to the file.
writerow(fields) == [i \in 1..Len(fields) |-> QuoteField(fields[i])]

\* The reader's view of a quoted cell: the outer quotes go, and of every
\* pair of quotes inside the second one goes.
RECURSIVE UnescapeQuotes(_, _, _)
UnescapeQuotes(s, lo, hi) ==
    IF lo > hi THEN ""
    ELSE IF lo = hi THEN
        IF Ch(s, lo) = "\""
        THEN LET start == Max({j \in 0..(lo - 1) : j = 0 \/ Ch(s, j) # "\""})
             IN IF (lo - start) % 2 = 0 THEN "" ELSE "\""
        ELSE Ch(s, lo)
    ELSE LET mid == (lo + hi) \div 2
         IN UnescapeQuotes(s, lo, mid) \o UnescapeQuotes(s, mid + 1, hi)

UnquoteField(raw) ==
    IF Len(raw) >= 2 /\ Ch(raw, 1) = "\"" /\ Ch(raw, Len(raw)) = "\""
    THEN LET inner == SubSeq(raw, 2, Len(raw) - 1)
         IN UnescapeQuotes(inner, 1, Len(inner))
    ELSE raw

\* The strings pandas reads as a missing value.
NaStrings == {"", "NA", "N/A", "n/a", "NaN", "nan", "null", "NULL", "None", "<NA>", "#N/A"}

\* One cell as pandas.read_csv gives it in a column of strings.
ReadCell(raw) ==
    LET v == UnquoteField(raw) IN IF v \in NaStrings THEN NaN ELSE v

\* pandas.read_csv(path) on a file with this content.  It raises on an I/O
\* or decoding error (io_error), on a file without a header line, and on a
\* line with more cells than the header; blank lines are skipped and a short
\* line is filled up with nan.
read_csv(content, io_error) ==
    LET lines == SelectSeq(content, LAMBDA l : l # <<"">> /\ l # <<>>)
        ncols == IF lines = <<>> THEN 0 ELSE Len(lines[1])
        raises == io_error \/ lines = <<>>
                  \/ \E i \in 2..Len(lines) : Len(lines[i]) > ncols
    IN IF raises THEN [ok |-> FALSE, columns |-> <<>>, rows |-> <<>>]
       ELSE [ok |-> TRUE,
             columns |-> [j \in 1..ncols |-> UnquoteField(lines[1][j])],
             rows |-> [i \in 1..(Len(lines) - 1) |->
                          [j \in 1..ncols |->
                              IF j <= Len(lines[i + 1])
                              THEN ReadCell(lines[i + 1][j]) ELSE NaN]]]

\* The position of a column in a frame, 0 when the frame has none of the name.
ColumnIndex(columns, name) ==
    Min({j \in 1..Len(columns) : columns[j] = name} \cup {Len(columns) + 1})
        % (Len(columns) + 1)

(***************************************************************************)
(* The manifest (ingest.py 204-262)                                        *)
(*                                                                         *)
(* A disk is a record [fs, dirs]: fs maps the path of every file to its    *)
(* content, dirs is the set of directories.                                *)
(***************************************************************************)

\* os.path.exists.
Exists(disk, p) == p \in DOMAIN disk.fs \/ p \in disk.dirs

\* The header of ensure_manifest, which is also the field list of
\* append_to_manifest.
ManifestFields ==
    <<"project", "stage", "path", "ts", "original_name", "size_bytes",
      "sha256", "source", "notes", "action", "derived_from", "code_commit">>

\* An ensure_manifest that writes the header whether or not the file exists.
ensure_manifest_rewrite(disk, manifest_path) ==
    [fs |-> (manifest_path :> <<writerow(ManifestFields)>>) @@ disk.fs,
     dirs |-> disk.dirs \cup Ancestors(dirname(manifest_path))]

ensure_manifest(disk, manifest_path) ==
    IF Exists(disk, manifest_path) THEN disk
    ELSE [fs |-> (manifest_path :> <<writerow(ManifestFields)>>) @@ disk.fs,
          dirs |-> disk.dirs \cup Ancestors(dirname(manifest_path))]

\* row is a dict from field names to strings (the writer writes str(v)).
append_to_manifest(disk, manifest_path, row) ==
    LET d1 == ensure_manifest(disk, manifest_path)
        row_data == [i \in 1..Len(ManifestFields) |->
                        DictGet(row, ManifestFields[i], "")]
    IN [d1 EXCEPT !.fs[manifest_path] = Append(@, writerow(row_data))]

\* A check that never finds a duplicate.
check_duplicate_none(disk, manifest_path, sha256, io_error) == NoneVal

\* A check without the except branch's effect: it answers from the manifest
\* even when the read raised.
check_duplicate_noexcept(disk, manifest_path, sha256, io_error) ==
    IF manifest_path \notin DOMAIN disk.fs THEN NoneVal
    ELSE LET df == read_csv(disk.fs[manifest_path], FALSE)
             shaCol == ColumnIndex(df.columns, "sha256")
             pathCol == ColumnIndex(df.columns, "path")
             matches == {i \in 1..Len(df.rows) : df.rows[i][shaCol] = sha256}
         IN IF shaCol = 0 \/ pathCol = 0 \/ matches = {} THEN NoneVal
            ELSE df.rows[Min(matches)][pathCol]

\* The path of the first line whose sha256 is the one given, None when
\* there is none, when the manifest does not exist and when reading it
\* raises (the except branch; a manifest that is a directory raises too).
check_duplicate(disk, manifest_path, sha256, io_error) ==
    IF ~Exists(disk, manifest_path) THEN NoneVal
    ELSE IF manifest_path \notin DOMAIN disk.fs THEN NoneVal
    ELSE LET df == read_csv(disk.fs[manifest_path], io_error)
             shaCol == ColumnIndex(df.columns, "sha256")
             pathCol == ColumnIndex(df.columns, "path")
             matches == {i \in 1..Len(df.rows) : df.rows[i][shaCol] = sha256}
         IN IF ~df.ok THEN NoneVal
            ELSE IF shaCol = 0 THEN NoneVal
            ELSE IF matches = {} THEN NoneVal
            ELSE IF pathCol = 0 THEN NoneVal
            ELSE df.rows[Min(matches)][pathCol]

(***************************************************************************)
(* ingest_file (ingest.py 357-458)                                         *)
(***************************************************************************)

\* os.path.abspath(os.path.dirname(__file__)): where the tool is installed.
ToolingRepo == "/t"

\* A guard that lets every path through; with it in place of InToolingRepo
\* the tool would ingest its own files.
NeverInToolingRepo(abs_filepath, tooling_repo) == FALSE

\* abs_filepath.startswith(tooling_repo): a comparison of the two strings.
InToolingRepo(abs_filepath, tooling_repo) == StartsWith(abs_filepath, tooling_repo)

\* Python s.strip().
Strip(s) ==
    LET keep == {i \in 1..Len(s) : Ch(s, i) \notin Whitespace}
    IN IF keep = {} THEN "" ELSE SubSeq(s, Min(keep), Max(keep))

\* shutil.move(src, dst) of a file to a path that does not exist.
move(disk, src, dst) ==
    [disk EXCEPT !.fs = (dst :> disk.fs[src]) @@
                        [q \in (DOMAIN disk.fs) \ {src} |-> disk.fs[q]]]

\* One call of ingest_file at clock reading t; io_error says whether the
\* read of the manifest in check_duplicate raises.  The result holds the
\* disk after the call, the value returned, and what the call computed on
\* its way (sha256, existing, dest_path; "" where it did not get there).
\* stabilize_file (ingest.py 377-383) only reads the size of the file and
\* the call goes on whatever it returns, so it leaves no trace here.
ingest_file(disk, filepath, project, subdir, config, source, notes, t, io_error) ==
    LET failed == [disk |-> disk, ret |-> FALSE, sha256 |-> "",
                   existing |-> NoneVal, dest_path |-> ""]
        abs_filepath == filepath    \* the paths of the model are absolute
        content == disk.fs[filepath]
        sha256 == compute_sha256(content)
        original_name == basename(filepath)
        size_bytes == getsize(content)
        projects_base == config.projects_base
        project_path == join(projects_base, project)
        manifest_path == join(join(project_path, "catalog"), "manifest.csv")
        existing == check_duplicate(disk, manifest_path, sha256, io_error)
        dup_row == [project |-> project, stage |-> "raw", path |-> abs_filepath,
                    ts |-> isoformat(t), original_name |-> original_name,
                    size_bytes |-> ToStr(size_bytes), sha256 |-> sha256,
                    source |-> source,
                    notes |-> Strip("Duplicate of " \o existing \o ". " \o notes),
                    action |-> "duplicate_skipped",
                    derived_from |-> "", code_commit |-> ""]
        new_filename == generate_timestamped_filename(original_name, config, t)
        dest_dir == join(project_path, subdir)
        d1 == [disk EXCEPT !.dirs = @ \cup Ancestors(dest_dir)]
        dest_path == handle_collision(DOMAIN d1.fs \cup d1.dirs,
                                      join(dest_dir, new_filename))
        d2 == move(d1, filepath, dest_path)
        row == [project |-> project, stage |-> "raw", path |-> dest_path,
                ts |-> isoformat(t), original_name |-> original_name,
                size_bytes |-> ToStr(size_bytes), sha256 |-> sha256,
                source |-> source, notes |-> notes, action |-> "ingested",
                derived_from |-> "", code_commit |-> ""]
    IN IF ~Exists(disk, filepath) THEN failed
       ELSE IF InToolingRepo(abs_filepath, ToolingRepo) THEN failed
       ELSE IF Truthy(existing)
       THEN [disk |-> append_to_manifest(disk, manifest_path, dup_row),
             ret |-> FALSE, sha256 |-> sha256, existing |-> existing,
             dest_path |-> ""]
       ELSE [disk |-> append_to_manifest(d2, manifest_path, row),
             ret |-> TRUE, sha256 |-> sha256, existing |-> existing,
             dest_path |-> dest_path]

(***************************************************************************)
(* route_file (ingest.py 461-482)                                          *)
(***************************************************************************)

\* The atoms of a pattern body: a backslash makes the next character a
\* literal, a dot stands for any character but a line break, every other
\* character stands for itself.
RECURSIVE Atoms(_)
Atoms(body) ==
    IF body = "" THEN <<>>
    ELSE IF Ch(body, 1) = "\\" /\ Len(body) >= 2
    THEN <<[any |-> FALSE, c |-> Ch(body, 2)]>> \o Atoms(SubSeq(body, 3, Len(body)))
    ELSE IF Ch(body, 1) = "."
    THEN <<[any |-> TRUE, c |-> ""]>> \o Atoms(SubSeq(body, 2, Len(body)))
    ELSE <<[any |-> FALSE, c |-> Ch(body, 1)]>> \o Atoms(SubSeq(body, 2, Len(body)))

\* re.search(pattern, string, re.IGNORECASE) as a truth value, for the
\* patterns made of literals, escaped literals and dots, with an optional
\* ^ in front and an optional $ at the end.
re_search(pattern, string) ==
    LET atStart == StartsWith(pattern, "^")
        p1 == IF atStart THEN SubSeq(pattern, 2, Len(pattern)) ELSE pattern
        atEnd == EndsWith(p1, "$") /\ ~EndsWith(p1, "\\$")
        body == IF atEnd THEN SubSeq(p1, 1, Len(p1) - 1) ELSE p1
        atoms == Atoms(body)
        n == Len(atoms)
        len == Len(string)
        atomOk(k, i) ==
            IF atoms[k].any THEN Ch(string, i) # "\n"
            ELSE LowerCh(Ch(string, i)) = LowerCh(atoms[k].c)
        endOk(e) == e = len \/ (e = len - 1 /\ Ch(string, len) = "\n")
        matchAt(i) ==
            /\ i + n - 1 <= len
            /\ \A k \in 1..n : atomOk(k, i + k - 1)
            /\ atEnd => endOk(i + n - 1)
    IN \E i \in (IF atStart THEN {1} ELSE 1..(len + 1)) : matchAt(i)

\* A router in which the last rule that applies wins.
route_file_last(filepath, config) ==
    LET routing_rules == DictGet(config, "routing", <<>>)
        name == basename(filepath)
        pattern(r) == DictGet(r, "pattern", NoneVal)
        project(r) == DictGet(r, "project", NoneVal)
        subdir(r) == DictGet(r, "subdir", NoneVal)
        hits == {i \in 1..Len(routing_rules) :
                    /\ Truthy(pattern(routing_rules[i]))
                    /\ Truthy(project(routing_rules[i]))
                    /\ Truthy(subdir(routing_rules[i]))
                    /\ re_search(pattern(routing_rules[i]), name)}
    IN IF hits = {} THEN NoneVal
       ELSE <<project(routing_rules[Max(hits)]), subdir(routing_rules[Max(hits)])>>

\* The (project, subdir) of the first rule that has all three of pattern,
\* project and subdir and whose pattern is found in the basename; None when
\* there is none.  A rule is a dict; a key it lacks reads as None.
route_file(filepath, config) ==
    LET routing_rules == DictGet(config, "routing", <<>>)
        name == basename(filepath)
        pattern(r) == DictGet(r, "pattern", NoneVal)
        project(r) == DictGet(r, "project", NoneVal)
        subdir(r) == DictGet(r, "subdir", NoneVal)
        hits == {i \in 1..Len(routing_rules) :
                    /\ Truthy(pattern(routing_rules[i]))
                    /\ Truthy(project(routing_rules[i]))
                    /\ Truthy(subdir(routing_rules[i]))
                    /\ re_search(pattern(routing_rules[i]), name)}
    IN IF hits = {} THEN NoneVal
       ELSE <<project(routing_rules[Min(hits)]), subdir(routing_rules[Min(hits)])>>

(***************************************************************************)
(* The state                                                               *)
(***************************************************************************)

VARIABLES
    disk,       \* [fs, dirs]: the files with their contents, the directories
    now,        \* the clock reading of the latest call
    cmd,        \* the command that is running, with its loop variables
    last,       \* the latest call: its arguments, its result, the disk before it
    failedOpen, \* the projects whose manifest some check_duplicate failed to read
    nops,       \* calls of ingest_file and of status so far
    nerr,       \* manifest reads that raised so far
    probe       \* the argument and result of a function called on its own

vars == <<disk, now, cmd, last, failedOpen, nops, nerr, probe>>

\* Bounds of the model.
MaxCalls == 2
MaxReadErrors == 1
MaxTime == 2

Projects == {"p", "q"}

\* args.subdir of add, by default.
DefaultSubdir == "data/raw"

\* The configuration: the projects under /b, downloads in /d, two routing
\* rules, naming left to the defaults.
Config ==
    [projects_base |-> "/b",
     downloads_dir |-> "/d",
     routing |-> <<[pattern |-> "^a", project |-> "p", subdir |-> DefaultSubdir],
                   [pattern |-> "\\.pdf$", project |-> "p", subdir |-> "data/clean"]>>]

ManifestPath(project) ==
    join(join(join(Config.projects_base, project), "catalog"), "manifest.csv")

\* A file that holds one line of text.
TextFile(text) == <<<<text>>>>

\* The files the user has: two downloads with the same bytes, a file of
\* the same name with other bytes elsewhere, a file of the tool itself, and
\* a copy of the second content in a directory beside the tool's whose
\* name starts like the tool's.
InitDisk ==
    [fs |-> ("/d/a.pdf" :> TextFile("aa")) @@ ("/d/c.PDF" :> TextFile("aa"))
            @@ ("/e/a.pdf" :> TextFile("b")) @@ ("/t/a.txt" :> TextFile("c"))
            @@ ("/t2/m.txt" :> TextFile("b")),
     dirs |-> {"/d", "/e", "/t", "/t2"}]

\* The lists of paths and patterns the add and route commands are run on.
AddArgLists ==
    {<<"/t/a.txt", "/d/a.pdf">>, <<"/d/*">>, <<"/d/zz", "/e/a.pdf">>, <<"/e", "/d/c.PDF">>}

RouteArgLists ==
    {<<"/d/a.pdf", "/d/*">>, <<"/t2/m.txt", "/e/a.pdf">>, <<"/t/a.txt", "/d/c.PDF">>}

\* A path at which there is no file.
MissingPath == "/d/zz"

IdleCmd ==
    [pc |-> "idle", args |-> <<>>, files |-> <<>>, project |-> "", subdir |-> "",
     from_downloads |-> FALSE, success_count |-> 0, skip_count |-> 0,
     no_route_count |-> 0,
     listed |-> <<>>,        \* the files the run was started on
     start |-> InitDisk]     \* the disk when the run started

NoCall ==
    [op |-> "none", filepath |-> "", project |-> "", subdir |-> "", ret |-> FALSE,
     sha256 |-> "", existing |-> NoneVal, dest_path |-> "", io_error |-> FALSE,
     pre |-> InitDisk, caller |-> IdleCmd, shown |-> 0]

NoProbe == [f |-> "none"]

Init ==
    /\ disk = InitDisk
    /\ now = 1
    /\ cmd = IdleCmd
    /\ last = NoCall
    /\ failedOpen = {}
    /\ nops = 0
    /\ nerr = 0
    /\ probe = NoProbe

(***************************************************************************)
(* Calls of ingest_file                                                    *)
(***************************************************************************)

\* Whether a call of ingest_file gets as far as reading the manifest.
ReadsManifest(filepath, project) ==
    /\ Exists(disk, filepath)
    /\ ~InToolingRepo(filepath, ToolingRepo)
    /\ ManifestPath(project) \in DOMAIN disk.fs

\* One call of ingest_file.  The clock does not go back, and a call that
\* ends at one of its first two checks reads no clock; the read of the
\* manifest may raise, as reads do.
Ingest(filepath, project, subdir, source, notes) ==
    \E t \in now..MaxTime, io_error \in BOOLEAN :
        /\ nops < MaxCalls
        /\ io_error => (ReadsManifest(filepath, project) /\ nerr < MaxReadErrors)
        /\ t # now => (Exists(disk, filepath) /\ ~InToolingRepo(filepath, ToolingRepo))
        /\ \E r \in {ingest_file(disk, filepath, project, subdir, Config,
                                 source, notes, t, io_error)} :
           /\ disk' = r.disk
           /\ now' = t
           /\ last' = [op |-> "ingest_file", filepath |-> filepath,
                       project |-> project, subdir |-> subdir, ret |-> r.ret,
                       sha256 |-> r.sha256, existing |-> r.existing,
                       dest_path |-> r.dest_path, io_error |-> io_error,
                       pre |-> disk, caller |-> cmd, shown |-> 0]
           /\ failedOpen' = IF io_error THEN failedOpen \cup {project} ELSE failedOpen
           /\ nops' = nops + 1
           /\ nerr' = IF io_error THEN nerr + 1 ELSE nerr

\* ingest_file called on its own, on a file of the disk or a missing path.
CallIngestFile ==
    /\ cmd.pc = "idle"
    /\ \E filepath \in DOMAIN disk.fs \cup {MissingPath}, project \in Projects :
           Ingest(filepath, project, DefaultSubdir, "manual", "")
    /\ UNCHANGED <<cmd, probe>>

(***************************************************************************)
(* The commands (ingest.py 494-656)                                        *)
(***************************************************************************)

\* The orders in which a directory listing may give the members of S.
Orderings(S) ==
    {f \in [1..Cardinality(S) -> S] : \A e \in S : \E i \in DOMAIN f : f[i] = e}

\* The entries of a directory.
Entries(dir) == {q \in DOMAIN disk.fs \cup disk.dirs : dirname(q) = dir}

\* glob(pattern): the possible results, for a literal path and for dir/*.
\* A listing comes in no particular order; * leaves out the dot files.
Glob(pattern) ==
    IF EndsWith(pattern, "/*")
    THEN LET dir == SubSeq(pattern, 1, Len(pattern) - 2)
         IN Orderings({q \in Entries(dir) : ~StartsWith(basename(q), ".")})
    ELSE IF Exists(disk, pattern) THEN {<<pattern>>} ELSE {<<>>}

\* The possible results of expanding a list of patterns one after another.
RECURSIVE GlobAll(_)
GlobAll(args) ==
    IF args = <<>> THEN {<<>>}
    ELSE {h \o t : h \in Glob(Head(args)), t \in GlobAll(Tail(args))}

\* os.path.isfile.
isfile(f) == f \in DOMAIN disk.fs

\* cmd_add: the loop variables are set up.
AddStart ==
    /\ cmd.pc = "idle"
    /\ nops < MaxCalls
    /\ \E args \in AddArgLists, project \in Projects :
           cmd' = [IdleCmd EXCEPT !.pc = "add", !.args = args,
                                  !.project = project, !.subdir = DefaultSubdir,
                                  !.start = disk]
    /\ UNCHANGED <<disk, now, last, failedOpen, nops, nerr, probe>>

\* cmd_add, outer loop: the next argument is expanded (no match: a warning).
AddGlob ==
    /\ cmd.pc = "add" /\ cmd.files = <<>> /\ cmd.args # <<>>
    /\ \E files \in Glob(Head(cmd.args)) :
           cmd' = [cmd EXCEPT !.files = files, !.args = Tail(@)]
    /\ UNCHANGED <<disk, now, last, failedOpen, nops, nerr, probe>>

\* cmd_add, inner loop: a directory is skipped, a file is ingested and
\* counted by the result.
AddFile ==
    /\ cmd.pc = "add" /\ cmd.files # <<>>
    /\ IF Head(cmd.files) \in disk.dirs
       THEN /\ cmd' = [cmd EXCEPT !.files = Tail(@)]
            /\ UNCHANGED <<disk, now, last, failedOpen, nops, nerr>>
       ELSE /\ Ingest(Head(cmd.files), cmd.project, cmd.subdir, "manual", "")
            /\ cmd' = [cmd EXCEPT
                          !.files = Tail(@),
                          !.success_count = IF last'.ret THEN @ + 1 ELSE @,
                          !.skip_count = IF last'.ret THEN @ ELSE @ + 1]
    /\ UNCHANGED probe

\* cmd_add: the summary, after the last argument.
AddSummary ==
    /\ cmd.pc = "add" /\ cmd.files = <<>> /\ cmd.args = <<>>
    /\ last' = [NoCall EXCEPT !.op = "add_summary", !.pre = disk, !.caller = cmd]
    /\ cmd' = IdleCmd
    /\ UNCHANGED <<disk, now, failedOpen, nops, nerr, probe>>

\* cmd_route: the list of files is made, from the listing of the downloads
\* directory or from the patterns given, directories left out; with no file
\* the command ends at once.
RouteStart ==
    /\ cmd.pc = "idle"
    /\ nops < MaxCalls
    /\ \E from_downloads \in BOOLEAN :
       \E matched \in (IF from_downloads
                       THEN Orderings(Entries(Config.downloads_dir))
                       ELSE UNION {GlobAll(args) : args \in RouteArgLists}) :
           /\ SelectSeq(matched, isfile) # <<>>
           /\ cmd' = [IdleCmd EXCEPT !.pc = "route",
                                     !.files = SelectSeq(matched, isfile),
                                     !.from_downloads = from_downloads,
                                     !.listed = SelectSeq(matched, isfile),
                                     !.start = disk]
    /\ UNCHANGED <<disk, now, last, failedOpen, nops, nerr, probe>>

\* cmd_route, the loop: a file no rule matches is counted and left alone,
\* any other is ingested where its rule says and counted by the result.
RouteFile ==
    /\ cmd.pc = "route" /\ cmd.files # <<>>
    /\ \E route \in {route_file(Head(cmd.files), Config)} :
       IF route = NoneVal
       THEN /\ cmd' = [cmd EXCEPT !.files = Tail(@), !.no_route_count = @ + 1]
            /\ last' = [NoCall EXCEPT !.op = "no_route", !.filepath = Head(cmd.files),
                                      !.pre = disk, !.caller = cmd]
            /\ UNCHANGED <<disk, now, failedOpen, nops, nerr>>
       ELSE /\ Ingest(Head(cmd.files), route[1], route[2],
                      IF cmd.from_downloads THEN "Downloads" ELSE "routed", "")
            /\ cmd' = [cmd EXCEPT
                          !.files = Tail(@),
                          !.success_count = IF last'.ret THEN @ + 1 ELSE @,
                          !.skip_count = IF last'.ret THEN @ ELSE @ + 1]
    /\ UNCHANGED probe

\* cmd_route: the summary, after the last file.
RouteSummary ==
    /\ cmd.pc = "route" /\ cmd.files = <<>>
    /\ last' = [NoCall EXCEPT !.op = "route_summary", !.pre = disk, !.caller = cmd]
    /\ cmd' = IdleCmd
    /\ UNCHANGED <<disk, now, failedOpen, nops, nerr, probe>>

\* The default of args.limit.
DefaultLimit == 20

\* cmd_status: the manifest is read and its last rows are printed; nothing
\* is written.  shown is the number of rows printed.
Status ==
    /\ cmd.pc = "idle"
    /\ nops < MaxCalls
    /\ \E project \in Projects :
       \E df \in {IF ManifestPath(project) \in DOMAIN disk.fs
                  THEN read_csv(disk.fs[ManifestPath(project)], FALSE)
                  ELSE [ok |-> FALSE, columns |-> <<>>, rows |-> <<>>]} :
           last' = [NoCall EXCEPT !.op = "status", !.project = project,
                                  !.pre = disk, !.caller = cmd,
                                  !.shown = IF Len(df.rows) < DefaultLimit
                                            THEN Len(df.rows) ELSE DefaultLimit]
    /\ nops' = nops + 1
    /\ UNCHANGED <<disk, now, cmd, failedOpen, nerr, probe>>

Next ==
    \/ CallIngestFile
    \/ AddStart \/ AddGlob \/ AddFile \/ AddSummary
    \/ RouteStart \/ RouteFile \/ RouteSummary
    \/ Status

Spec == Init /\ [][Next]_vars

(***************************************************************************)
(* Properties of the calls and commands                                    *)
(***************************************************************************)

\* The rows of a project's manifest on disk d, each the sequence of its
\* cells as they stand in the file; no row when there is no manifest.
Records(d, project) ==
    IF ManifestPath(project) \notin DOMAIN d.fs THEN <<>>
    ELSE Tail(d.fs[ManifestPath(project)])

\* The places of four columns in a row.
PathCol == ColumnIndex(ManifestFields, "path")
Sha256Col == ColumnIndex(ManifestFields, "sha256")
NotesCol == ColumnIndex(ManifestFields, "notes")
ActionCol == ColumnIndex(ManifestFields, "action")

\* A field of a row, as the text that was written.
Field(rec, col) == UnquoteField(rec[col])

IsPrefix(a, b) == Len(a) <= Len(b) /\ \A i \in 1..Len(a) : a[i] = b[i]

\* The rows of action 'ingested' that hold the hash given.
IngestedWith(recs, sha256) ==
    {i \in 1..Len(recs) : /\ Field(recs[i], ActionCol) = "ingested"
                          /\ Field(recs[i], Sha256Col) = sha256}

\* Whether a path is the tool's directory or lies in it.
InsideTool(path) == path = ToolingRepo \/ StartsWith(path, ToolingRepo \o "/")

\* Whether string part occurs in string s.
Contains(s, part) ==
    \E i \in 1..(Len(s) - Len(part) + 1) : SubSeq(s, i, i + Len(part) - 1) = part

\* The latest call was ingest_file on a file that was there.
CalledOnFile == last.op = "ingest_file" /\ last.filepath \in DOMAIN last.pre.fs

\* The hash of the file the latest call was given.
GivenHash == compute_sha256(last.pre.fs[last.filepath])

C2_DuplicateSkipped ==
    (/\ CalledOnFile
     /\ ~InsideTool(last.filepath)
     /\ ~last.io_error
     /\ IngestedWith(Records(last.pre, last.project), GivenHash) # {})
    => LET before == Records(last.pre, last.project)
           after == Records(disk, last.project)
           first == Min(IngestedWith(before, GivenHash))
       IN /\ last.ret = FALSE
          /\ Len(after) = Len(before) + 1
          /\ IsPrefix(before, after)
          /\ Field(after[Len(after)], ActionCol) = "duplicate_skipped"
          /\ Contains(Field(after[Len(after)], NotesCol), Field(before[first], PathCol))
          /\ last.filepath \in DOMAIN disk.fs
          /\ DOMAIN disk.fs = DOMAIN last.pre.fs

\* C3: the rows a manifest held before an operation are a prefix of the rows
\* it holds after it, for every operation and every project.
C3_AppendOnly ==
    \A project \in Projects :
        IsPrefix(Records(last.pre, project), Records(disk, project))

\* C4: ingest_file on an existing file outside the tool directory whose hash
\* is in no row of the project's manifest returns True, the source is gone,
\* the file is at a destination under projects_base/project/subdir that did
\* not exist before, and exactly one row is appended: action 'ingested', the
\* destination as path, the hash of the file as sha256.
C4_IngestsNewFile ==
    (/\ CalledOnFile
     /\ ~InsideTool(last.filepath)
     /\ \A i \in 1..Len(Records(last.pre, last.project)) :
            Field(Records(last.pre, last.project)[i], Sha256Col) # GivenHash)
    => LET before == Records(last.pre, last.project)
           after == Records(disk, last.project)
           dest_dir == join(join(Config.projects_base, last.project), last.subdir)
       IN /\ last.ret = TRUE
          /\ last.filepath \notin DOMAIN disk.fs
          /\ last.dest_path \in DOMAIN disk.fs
          /\ ~Exists(last.pre, last.dest_path)
          /\ dirname(last.dest_path) = dest_dir
          /\ disk.fs[last.dest_path] = last.pre.fs[last.filepath]
          /\ \A q \in DOMAIN last.pre.fs :
                 (q # last.filepath /\ q # ManifestPath(last.project))
                 => (q \in DOMAIN disk.fs /\ disk.fs[q] = last.pre.fs[q])
          /\ Len(after) = Len(before) + 1
          /\ IsPrefix(before, after)
          /\ Field(after[Len(after)], ActionCol) = "ingested"
          /\ Field(after[Len(after)], PathCol) = last.dest_path
          /\ Field(after[Len(after)], Sha256Col) = GivenHash

\* C6: a call of ingest_file on a path that does not exist or lies inside
\* the tool's directory returns False and leaves the disk as it was (files,
\* manifests, directories), and a command that made the call has the rest
\* of its files still to process, with the file counted as skipped.
C6_GuardSkips ==
    [][(/\ nops' = nops + 1
        /\ last'.op = "ingest_file"
        /\ (~Exists(disk, last'.filepath) \/ InsideTool(last'.filepath)))
       => (/\ last'.ret = FALSE
           /\ disk' = disk
           /\ cmd.pc # "idle" =>
                  /\ cmd'.pc = cmd.pc
                  /\ cmd'.args = cmd.args
                  /\ cmd'.files = Tail(cmd.files)
                  /\ cmd'.skip_count = cmd.skip_count + 1
                  /\ cmd'.success_count = cmd.success_count)]_vars

\* An add command was given a file of the tool first, skipped it, and went
\* on to ingest the next file.
C6_Witness ==
    /\ cmd.pc = "add"
    /\ last.op = "ingest_file"
    /\ last.ret = TRUE
    /\ last.caller.skip_count = 1
    /\ cmd.success_count = 1
    /\ InsideTool("/t/a.txt") /\ "/t/a.txt" \in DOMAIN disk.fs
    /\ cmd.skip_count = 1

\* C7: when the read of the manifest raises, check_duplicate returns None
\* and ingest_file goes on: it returns True, the file is at its destination
\* and the manifest ends with its 'ingested' row.  When the manifest is read,
\* check_duplicate returns the path of the first row whose sha256 is the
\* hash given, None when there is no such row or no manifest.
C7_FailsOpen ==
    (last.op = "ingest_file" /\ last.sha256 # "")
    => LET before == Records(last.pre, last.project)
           after == Records(disk, last.project)
           matches == {i \in 1..Len(before) :
                          Field(before[i], Sha256Col) = last.sha256}
       IN IF last.io_error
          THEN /\ last.existing = NoneVal
               /\ last.ret = TRUE
               /\ last.dest_path \in DOMAIN disk.fs
               /\ disk.fs[last.dest_path] = last.pre.fs[last.filepath]
               /\ after # <<>>
               /\ Field(after[Len(after)], ActionCol) = "ingested"
               /\ Field(after[Len(after)], Sha256Col) = last.sha256
               /\ Field(after[Len(after)], PathCol) = last.dest_path
          ELSE last.existing = IF matches = {} THEN NoneVal
                               ELSE Field(before[Min(matches)], PathCol)

\* The read of the manifest raised for a file whose hash the manifest held,
\* and the file was ingested again.
C7_Witness ==
    /\ last.op = "ingest_file"
    /\ last.io_error
    /\ last.ret = TRUE
    /\ IngestedWith(Records(last.pre, last.project), last.sha256) # {}
    /\ Cardinality(IngestedWith(Records(disk, last.project), last.sha256)) = 2

(***************************************************************************)
(* slugify on its own                                                      *)
(***************************************************************************)

\* The characters the texts are made of: a letter, a hyphen, a blank, a
\* character the slug drops, a letter with a diacritic, a dot.
SlugAlphabet == {"a", "-", " ", "!", "é", "."}

MaxTextLen == 4
MaxSlugLen == 3

\* The strings over SlugAlphabet of length n at most.
RECURSIVE Texts(_)
Texts(n) ==
    IF n = 0 THEN {""}
    ELSE LET shorter == Texts(n - 1)
         IN shorter \cup {s \o c : s \in shorter, c \in SlugAlphabet}

InitSlug ==
    /\ disk = InitDisk /\ now = 1 /\ cmd = IdleCmd /\ last = NoCall
    /\ failedOpen = {} /\ nops = 0 /\ nerr = 0
    /\ \E text \in Texts(MaxTextLen), max_len \in 0..MaxSlugLen :
           probe = [f |-> "slugify", pc |-> "start", text |-> text,
                    max_len |-> max_len, once |-> "", twice |-> ""]

\* slug = slugify(text, max_len)
SlugOnce ==
    /\ probe.f = "slugify" /\ probe.pc = "start"
    /\ probe' = [probe EXCEPT !.pc = "once",
                              !.once = slugify(probe.text, probe.max_len)]
    /\ UNCHANGED <<disk, now, cmd, last, failedOpen, nops, nerr>>

\* slugify(slug, max_len)
SlugTwice ==
    /\ probe.f = "slugify" /\ probe.pc = "once"
    /\ probe' = [probe EXCEPT !.pc = "twice",
                              !.twice = slugify(probe.once, probe.max_len)]
    /\ UNCHANGED <<disk, now, cmd, last, failedOpen, nops, nerr>>

NextSlug == SlugOnce \/ SlugTwice

SpecSlug == InitSlug /\ [][NextSlug]_vars

\* C10: slugify is idempotent: for every text and every max_len (a length,
\* 0 or more), the slug of the slug is the slug, also when the cut at
\* max_len falls on a hyphen or beside one.
C10_SlugifyIdempotent ==
    (probe.f = "slugify" /\ probe.pc = "twice") => probe.twice = probe.once

\* A text was cut at a hyphen, which the first slugify stripped, and the
\* second slugify was applied to the result.
C10_Witness ==
    /\ probe.f = "slugify" /\ probe.pc = "twice"
    /\ probe.text = "a-a-" /\ probe.max_len = 2
    /\ probe.once = "a"

(***************************************************************************)
(* handle_collision on its own                                             *)
(***************************************************************************)

\* The targets: one with an extension, one without.
CollisionTargets == {"/c/f.txt", "/c/g"}

\* How many files are made at the paths returned, and how many are removed.
MaxTaken == 28
MaxFreed == 1

InitCollision ==
    /\ disk = InitDisk /\ now = 1 /\ cmd = IdleCmd /\ last = NoCall
    /\ failedOpen = {} /\ nops = 0 /\ nerr = 0
    /\ \E target \in CollisionTargets :
           probe = [f |-> "handle_collision", pc |-> "start", target |-> target,
                    ret |-> "", pre |-> InitDisk, taken |-> 0, freed |-> 0]

\* dest_path = handle_collision(target)
CallHandleCollision ==
    /\ probe.f = "handle_collision" /\ probe.pc = "start"
    /\ probe' = [probe EXCEPT
                    !.pc = "called",
                    !.ret = handle_collision(DOMAIN disk.fs \cup disk.dirs,
                                             probe.target),
                    !.pre = disk]
    /\ UNCHANGED <<disk, now, cmd, last, failedOpen, nops, nerr>>

\* The caller puts a file at the path returned, as ingest_file does.
TakePath ==
    /\ probe.f = "handle_collision" /\ probe.pc = "called"
    /\ probe.taken < MaxTaken
    /\ disk' = [disk EXCEPT !.fs = (probe.ret :> TextFile("x")) @@ @]
    /\ probe' = [probe EXCEPT !.pc = "start", !.taken = @ + 1]
    /\ UNCHANGED <<now, cmd, last, failedOpen, nops, nerr>>

\* One of the files made is removed, which leaves a gap in the suffixes.
FreePath ==
    /\ probe.f = "handle_collision" /\ probe.pc = "start"
    /\ probe.freed < MaxFreed
    /\ \E gone \in DOMAIN disk.fs \ DOMAIN InitDisk.fs :
           disk' = [disk EXCEPT !.fs = [q \in (DOMAIN disk.fs) \ {gone} |-> disk.fs[q]]]
    /\ probe' = [probe EXCEPT !.freed = @ + 1]
    /\ UNCHANGED <<now, cmd, last, failedOpen, nops, nerr>>

NextCollision == CallHandleCollision \/ TakePath \/ FreePath

SpecCollision == InitCollision /\ [][NextCollision]_vars

\* The k-th path of the sequence target, base-a ext, ..., base-z ext,
\* base-1 ext, base-2 ext, ...
Candidate(target, k) ==
    IF k = 0 THEN target
    ELSE splitext(target)[1] \o "-"
         \o (IF k <= Len(LowerChars) THEN Ch(LowerChars, k)
             ELSE ToStr(k - Len(LowerChars)))
         \o splitext(target)[2]

\* C8: handle_collision returns a path that does not exist, changes nothing
\* on the disk, and with the target and the first N - 1 suffixed paths taken
\* returns the path with the N-th suffix of a, b, ..., z, 1, 2, ... (the
\* target itself when it is free).
C8_NextFreeSuffix ==
    (probe.f = "handle_collision" /\ probe.pc = "called")
    => /\ ~Exists(disk, probe.ret)
       /\ disk = probe.pre
       /\ \A k \in 0..(MaxTaken + 1) :
              (/\ \A j \in 0..(k - 1) : Exists(disk, Candidate(probe.target, j))
               /\ ~Exists(disk, Candidate(probe.target, k)))
              => probe.ret = Candidate(probe.target, k)

\* The target and all 26 lettered paths were taken, and the call returned
\* the path with the suffix 1.
C8_Witness ==
    /\ probe.f = "handle_collision" /\ probe.pc = "called"
    /\ probe.target = "/c/f.txt"
    /\ \A k \in 0..Len(LowerChars) : Exists(disk, Candidate(probe.target, k))
    /\ probe.ret = "/c/f-1.txt"

(***************************************************************************)
(* route_file on its own                                                   *)
(***************************************************************************)

\* The rules a configuration may list: three that have all their keys, one
\* without a subdir, one with an empty pattern, one with an empty project.
RouteRules ==
    {[pattern |-> "^a", project |-> "p", subdir |-> "s1"],
     [pattern |-> "\\.pdf$", project |-> "q", subdir |-> "s2"],
     [pattern |-> "B", project |-> "p", subdir |-> "s3"],
     [pattern |-> "^a", project |-> "q"],
     [pattern |-> "", project |-> "q", subdir |-> "s5"],
     [pattern |-> "a.c", project |-> "", subdir |-> "s6"]}

RoutePaths == {"/x/abc.pdf", "/x/ABC.PDF", "/x/b.txt", "/abc/z.doc"}

MaxRules == 2

\* The lists of n rules at most.
RECURSIVE RuleLists(_)
RuleLists(n) ==
    IF n = 0 THEN {<<>>}
    ELSE LET shorter == RuleLists(n - 1)
         IN shorter \cup {Append(l, r) : l \in shorter, r \in RouteRules}

InitRoute ==
    /\ disk = InitDisk /\ now = 1 /\ cmd = IdleCmd /\ last = NoCall
    /\ failedOpen = {} /\ nops = 0 /\ nerr = 0
    /\ \E filepath \in RoutePaths, routing \in RuleLists(MaxRules) :
           probe = [f |-> "route_file", pc |-> "start", filepath |-> filepath,
                    routing |-> routing, ret |-> NoneVal]

\* route = route_file(filepath, config)
CallRouteFile ==
    /\ probe.f = "route_file" /\ probe.pc = "start"
    /\ probe' = [probe EXCEPT
                    !.pc = "called",
                    !.ret = route_file(probe.filepath, [routing |-> probe.routing])]
    /\ UNCHANGED <<disk, now, cmd, last, failedOpen, nops, nerr>>

NextRoute == CallRouteFile

SpecRoute == InitRoute /\ [][NextRoute]_vars

\* The rules of the probe whose pattern is found in the basename, whatever
\* the case of the letters.
Matching ==
    {i \in 1..Len(probe.routing) :
        /\ "pattern" \in DOMAIN probe.routing[i]
        /\ re_search(probe.routing[i].pattern, basename(probe.filepath))}

\* The rules that have a pattern, a project and a subdir, none of them empty.
Complete ==
    {i \in 1..Len(probe.routing) :
        \A key \in {"pattern", "project", "subdir"} :
            key \in DOMAIN probe.routing[i] /\ probe.routing[i][key] # ""}

\* The answer of route_file for rule i.
Routed(i) ==
    <<DictGet(probe.routing[i], "project", NoneVal),
      DictGet(probe.routing[i], "subdir", NoneVal)>>

\* C5 as stated: route_file returns the (project, subdir) of the first rule
\* whose pattern matches the basename, case-insensitively, and None exactly
\* when the pattern of no rule matches.
C5_FirstMatchWins ==
    (probe.f = "route_file" /\ probe.pc = "called")
    => IF Matching = {} THEN probe.ret = NoneVal
       ELSE probe.ret # NoneVal /\ probe.ret = Routed(Min(Matching))

\* C5, amended: route_file returns the (project, subdir) of the first rule
\* that has a non-empty pattern, project and subdir and whose pattern
\* matches the basename, case-insensitively, and None exactly when there is
\* no such rule; a rule that lacks one of the three is passed over.
C5_FirstCompleteMatchWins ==
    (probe.f = "route_file" /\ probe.pc = "called")
    => IF Matching \cap Complete = {} THEN probe.ret = NoneVal
       ELSE probe.ret # NoneVal /\ probe.ret = Routed(Min(Matching \cap Complete))

\* Two rules with all their keys match an upper-case name, with different
\* answers, and the call returned the answer of the first.
C5_Witness ==
    /\ probe.f = "route_file" /\ probe.pc = "called"
    /\ probe.filepath = "/x/ABC.PDF"
    /\ Matching \cap Complete = {1, 2}
    /\ Routed(1) # Routed(2)
    /\ probe.ret # NoneVal /\ probe.ret = Routed(1)

(***************************************************************************)
(* ensure_manifest and append_to_manifest on their own                     *)
(***************************************************************************)

\* The rows given to append_to_manifest: none of the keys, some of them with
\* a key that is no field, all of them as ingest_file gives them, and a row
\* whose notes need quoting.
ManifestRows ==
    {<<>>,
     [project |-> "p", action |-> "ingested", bogus |-> "x"],
     [project |-> "p", stage |-> "raw", path |-> "/b/p/data/raw/a.pdf",
      ts |-> isoformat(1), original_name |-> "a.pdf", size_bytes |-> "4",
      sha256 |-> "#aa", source |-> "manual", notes |-> "",
      action |-> "ingested", derived_from |-> "", code_commit |-> ""],
     [notes |-> "Duplicate of \"a, b\".", action |-> "duplicate_skipped"]}

MaxAppends == 3

InitManifest ==
    /\ disk = InitDisk /\ now = 1 /\ cmd = IdleCmd /\ last = NoCall
    /\ failedOpen = {} /\ nops = 0 /\ nerr = 0
    /\ probe = [f |-> "manifest", op |-> "none", manifest_path |-> "",
                pre |-> InitDisk, appends |-> 0,
                log |-> [project \in Projects |-> <<>>]]

\* ensure_manifest(manifest_path)
CallEnsureManifest ==
    /\ probe.f = "manifest"
    /\ \E project \in Projects :
           /\ disk' = ensure_manifest(disk, ManifestPath(project))
           /\ probe' = [probe EXCEPT !.op = "ensure_manifest",
                                     !.manifest_path = ManifestPath(project),
                                     !.pre = disk]
    /\ UNCHANGED <<now, cmd, last, failedOpen, nops, nerr>>

\* append_to_manifest(manifest_path, row); log keeps the rows given.
CallAppendToManifest ==
    /\ probe.f = "manifest"
    /\ probe.appends < MaxAppends
    /\ \E project \in Projects, row \in ManifestRows :
           /\ disk' = append_to_manifest(disk, ManifestPath(project), row)
           /\ probe' = [probe EXCEPT !.op = "append_to_manifest",
                                     !.manifest_path = ManifestPath(project),
                                     !.pre = disk,
                                     !.appends = @ + 1,
                                     !.log[project] = Append(@, row)]
    /\ UNCHANGED <<now, cmd, last, failedOpen, nops, nerr>>

NextManifest == CallEnsureManifest \/ CallAppendToManifest

SpecManifest == InitManifest /\ [][NextManifest]_vars

\* C9: after any calls of ensure_manifest and append_to_manifest on a path,
\* the file starts with the header of 12 columns and holds it once, followed
\* by one row of 12 fields for every append, in order, a field the row did
\* not give being empty; and ensure_manifest on a manifest that exists
\* changes nothing.
C9_HeaderOnceRowPerAppend ==
    probe.f = "manifest" =>
        /\ \A project \in Projects :
               LET path == ManifestPath(project)
                   given == probe.log[project]
               IN IF path \notin DOMAIN disk.fs THEN given = <<>>
                  ELSE LET lines == disk.fs[path]
                       IN /\ Len(lines) = 1 + Len(given)
                          /\ lines[1] = ManifestFields
                          /\ {k \in 1..Len(lines) : lines[k] = ManifestFields} = {1}
                          /\ \A k \in 1..Len(given) :
                                 /\ Len(lines[k + 1]) = 12
                                 /\ \A j \in 1..12 :
                                        UnquoteField(lines[k + 1][j]) =
                                            IF ManifestFields[j] \in DOMAIN given[k]
                                            THEN given[k][ManifestFields[j]] ELSE ""
        /\ (probe.op = "ensure_manifest" /\ Exists(probe.pre, probe.manifest_path))
           => disk = probe.pre

\* ensure_manifest was called on a manifest that held two rows already, one
\* of them given without most of its fields.
C9_Witness ==
    /\ probe.f = "manifest" /\ probe.op = "ensure_manifest"
    /\ probe.manifest_path = ManifestPath("p")
    /\ Len(probe.log["p"]) = 2
    /\ probe.log["p"][1] = <<>>
    /\ Len(disk.fs[ManifestPath("p")]) = 3

(***************************************************************************)
(* generate_timestamped_filename on its own                                *)
(***************************************************************************)

\* The names of the files given: base names with capitals, blanks, brackets,
\* a diacritic, nothing a slug keeps, a dot in front; extensions in either
\* case and none.
NameBases == {"My Report (Final)", "a", "A b", "é-X", "()", ".hidden", "x.tar"}
NameExts == {".PDF", ".pdf", ".Txt", ""}

InitName ==
    /\ disk = InitDisk /\ now = 1 /\ cmd = IdleCmd /\ last = NoCall
    /\ failedOpen = {} /\ nops = 0 /\ nerr = 0
    /\ \E base \in NameBases, ext \in NameExts, t \in 1..MaxTime :
           probe = [f |-> "generate_timestamped_filename", pc |-> "start",
                    original_name |-> base \o ext, t |-> t, ret |-> ""]

\* new_filename = generate_timestamped_filename(original_name, config), the
\* config without a naming section.
CallGenerateName ==
    /\ probe.f = "generate_timestamped_filename" /\ probe.pc = "start"
    /\ probe' = [probe EXCEPT
                    !.pc = "called",
                    !.ret = generate_timestamped_filename(probe.original_name,
                                                          Config, probe.t)]
    /\ UNCHANGED <<disk, now, cmd, last, failedOpen, nops, nerr>>

NextName == CallGenerateName

SpecName == InitName /\ [][NextName]_vars

\* C11: with the default naming config the name is slug_timestamp ext, the
\* slug of the base name in lower case ("file" for an empty slug) and the
\* extension in lower case; for My Report (Final).PDF the name starts with
\* my-report-final_ and ends with .pdf.
C11_LowerCaseName ==
    (probe.f = "generate_timestamped_filename" /\ probe.pc = "called")
    => LET base == splitext(probe.original_name)[1]
           ext == splitext(probe.original_name)[2]
           slug == IF slugify(base, DefaultSlugMaxLen) = "" THEN "file"
                   ELSE slugify(base, DefaultSlugMaxLen)
       IN /\ probe.ret = Lower(slug) \o "_" \o strftime(probe.t) \o Lower(ext)
          /\ probe.original_name = "My Report (Final).PDF"
             => /\ StartsWith(probe.ret, "my-report-final_")
                /\ EndsWith(probe.ret, ".pdf")

(***************************************************************************)
(* stabilize_file (ingest.py 69-97)                                        *)
(*                                                                         *)
(* Time is counted in poll intervals.  Another process may change the size *)
(* of the file between two polls, and a sleep may last longer than asked.  *)
(***************************************************************************)

\* The defaults of stable_count and timeout (seconds), and the polls a
\* second holds at the default poll_interval of 0.5 s.
StableCount == 3
Timeout == 30
PollsPerSecond == 2

\* The sizes a poll may find, and the intervals a sleep may last.
MaxSize == 2
MaxSleep == 2

\* A test that is content one check early.
IsStableEarly(stable_checks, stable_count) == stable_checks + 1 >= stable_count

\* stable_checks >= stable_count
IsStable(stable_checks, stable_count) == stable_checks >= stable_count

\* The last n elements of a sequence (all of it when it is shorter).
LastN(seq, n) == SubSeq(seq, Max({1, Len(seq) - n + 1}), Len(seq))

InitStabilize ==
    /\ disk = InitDisk /\ now = 1 /\ cmd = IdleCmd /\ last = NoCall
    /\ failedOpen = {} /\ nops = 0 /\ nerr = 0
    /\ \E exists \in BOOLEAN :
           probe = [f |-> "stabilize_file", pc |-> "start", exists |-> exists,
                    elapsed |-> 0, last_size |-> -1, stable_checks |-> 0,
                    ret |-> FALSE, npolls |-> 0, recent |-> <<>>]

\* The check that the file exists, and the loop variables.
StabilizeStart ==
    /\ probe.f = "stabilize_file" /\ probe.pc = "start"
    /\ probe' = IF probe.exists THEN [probe EXCEPT !.pc = "loop"]
                ELSE [probe EXCEPT !.pc = "done", !.ret = FALSE]
    /\ UNCHANGED <<disk, now, cmd, last, failedOpen, nops, nerr>>

\* One turn of the loop: the size is polled and compared with the last one,
\* then the function returns or sleeps.  recent keeps the last sizes polled
\* (one more than StableCount), npolls counts the polls.
StabilizePoll ==
    /\ probe.f = "stabilize_file" /\ probe.pc = "loop"
    /\ probe.elapsed < Timeout * PollsPerSecond
    /\ \E current_size \in 1..MaxSize, slept \in 1..MaxSleep :
       \E stable_checks \in {IF current_size = probe.last_size
                             THEN probe.stable_checks + 1 ELSE 0} :
           probe' = [probe EXCEPT
                        !.npolls = @ + 1,
                        !.recent = LastN(Append(@, current_size), StableCount + 1),
                        !.last_size = current_size,
                        !.stable_checks = stable_checks,
                        !.pc = IF current_size = probe.last_size
                                  /\ IsStable(stable_checks, StableCount)
                               THEN "done" ELSE "loop",
                        !.ret = current_size = probe.last_size
                                /\ IsStable(stable_checks, StableCount),
                        !.elapsed = IF current_size = probe.last_size
                                       /\ IsStable(stable_checks, StableCount)
                                    THEN @ ELSE @ + slept]
    /\ UNCHANGED <<disk, now, cmd, last, failedOpen, nops, nerr>>

\* The loop ends at the timeout: the function returns True.
StabilizeTimeout ==
    /\ probe.f = "stabilize_file" /\ probe.pc = "loop"
    /\ probe.elapsed >= Timeout * PollsPerSecond
    /\ probe' = [probe EXCEPT !.pc = "done", !.ret = TRUE]
    /\ UNCHANGED <<disk, now, cmd, last, failedOpen, nops, nerr>>

NextStabilize == StabilizeStart \/ StabilizePoll \/ StabilizeTimeout

\* The loop keeps running: nothing holds a turn back for ever.
SpecStabilize == InitStabilize /\ [][NextStabilize]_vars /\ WF_vars(NextStabilize)

\* The last n polls found one and the same size.
SameSize(n) ==
    /\ probe.npolls >= n
    /\ \A i, j \in 1..Len(LastN(probe.recent, n)) :
           LastN(probe.recent, n)[i] = LastN(probe.recent, n)[j]

RowsOf(d, project, action) ==
    Cardinality({i \in 1..Len(Records(d, project)) :
                    Field(Records(d, project)[i], ActionCol) = action})

\* How many rows of the action given the run that just ended has added,
\* over the manifests of all projects.
RECURSIVE Added(_, _)
Added(projects, action) ==
    IF projects = {} THEN 0
    ELSE LET project == CHOOSE x \in projects : TRUE
         IN RowsOf(disk, project, action)
            - RowsOf(last.caller.start, project, action)
            + Added(projects \ {project}, action)

\* The files of the run that no rule matches.
Unrouted ==
    {i \in 1..Len(last.caller.listed) :
        route_file(last.caller.listed[i], Config) = NoneVal}

\* C13: at the end of a route run the three counters add up to the number
\* of files processed, the ingested count is the number of 'ingested' rows
\* the run added, the duplicates count is the number of 'duplicate_skipped'
\* rows it added, and the not-routed count is the number of files no rule
\* matched, each of them still where it was and as it was.
C13_CountersPartition ==
    last.op = "route_summary"
    => /\ last.caller.success_count + last.caller.skip_count
              + last.caller.no_route_count = Len(last.caller.listed)
       /\ last.caller.success_count = Added(Projects, "ingested")
       /\ last.caller.skip_count = Added(Projects, "duplicate_skipped")
       /\ last.caller.no_route_count = Cardinality(Unrouted)
       /\ \A i \in Unrouted :
              /\ last.caller.listed[i] \in DOMAIN disk.fs
              /\ disk.fs[last.caller.listed[i]]
                     = last.caller.start.fs[last.caller.listed[i]]
====
